---- MODULE Spec2Model ----
(***************************************************************************)
(* ChickEye backend (src/backend/main.py): the /ws/video session, its      *)
(* stability filter and the frame transport encoder.                       *)
(*                                                                         *)
(* A session is the coroutine ws_video.  Between two awaits its code runs  *)
(* without interruption, so each action below is one such stretch.  The    *)
(* environment chooses whether the source opens, whether a read succeeds   *)
(* and what shape the frame has, what the detection provider answers, when *)
(* the client goes away and when the task is cancelled.                    *)
(***************************************************************************)
EXTENDS Integers, Sequences, FiniteSets, TLC

\* ------------------------------------------------------------------ bounds

\* Frames a session reads successfully.
MaxFrames == 2
\* Detections in one provider response.
MaxDets == 2
\* Frames a session reads in the long-window specification.
MaxWindowFrames == 11
\* Frames a session reads in the encoder specification.
MaxEncodeFrames == 1
\* Frames each session reads in the two-session specification.
MaxTwoFrames == 1
\* Training threads started, and lines a training subprocess prints.
MaxTrainRuns == 2
MaxLogLines == 2

\* ------------------------------------------------------- program constants

\* deque(maxlen=10)
HistoryLen == 10
\* sum(history) / len(history) >= 0.8, as the fraction 8/10
RatioNum == 8
RatioDen == 10
\* _encode_frame: if w > 640 ... (640, int(640 * h / w))
EncodeWidth == 640
\* train_start: body.get("epochs", 100), body.get("imgsz", 640)
DefaultEpochs == 100
DefaultImgsz == 640

\* ------------------------------------------------------------------ inputs

Sessions == {1, 2}

\* What CONFIG_FILE / the environment can hold as class names.
ClassNameChoices ==
  { <<>>, <<"Chicken 1">>, <<"Chicken 1", "Chicken 2">> }

\* A detection is a JSON object; a key the object lacks is absent from the
\* record's domain.  confidence is in percent (0.9 is 90).
WellFormedDets ==
  { [class |-> c, confidence |-> f, bbox |-> "box"] :
      c \in {0, 1, 2}, f \in {60, 90} }
  \cup { [class |-> -1, confidence |-> 90, bbox |-> "box"] }

MalformedDets ==
  { [confidence |-> 90, bbox |-> "box"],
    [class |-> 0, bbox |-> "box"],
    [class |-> 0, confidence |-> 90] }

SeqsUpTo(S, n) == UNION { [1..k -> S] : k \in 0..n }

\* A JSON value found under "detections": a list, or something that is not
\* iterable as a list of objects (a number).
JsonList(items) == [type |-> "list", items |-> items]
JsonNumber == [type |-> "number"]

\* Ways the provider call ends in _call_model's except branch.
FailureKinds == {"transport_error", "timeout", "http_error", "bad_json"}

\* A provider response: a failure, or a 2xx JSON object body.
FailedResponses == { [kind |-> k] : k \in FailureKinds }
OkResponse(body) == [kind |-> "ok", body |-> body]
NoField == [x \in {} |-> 0]

Responses ==
  FailedResponses
  \cup { OkResponse([detections |-> JsonList(l)]) :
           l \in SeqsUpTo(WellFormedDets \cup MalformedDets, MaxDets) }
  \cup { OkResponse([detections |-> JsonNumber]), OkResponse(NoField) }

\* The long-window specification: one class, absent, detected once or
\* detected twice, or the provider call times out.
WindowDet(f) == [class |-> 0, confidence |-> f, bbox |-> "box"]
WindowResponses ==
  { OkResponse([detections |-> JsonList(l)]) :
      l \in { <<>>, <<WindowDet(90)>>, <<WindowDet(60), WindowDet(90)>> } }
  \cup { [kind |-> "timeout"] }

\* The retry specification: two classes; the provider fails, answers with
\* no, one or two detections, or with a body the processing raises on.
RetryDet(c, f) == [class |-> c, confidence |-> f, bbox |-> "box"]
RetryResponses ==
  { [kind |-> "timeout"], OkResponse([detections |-> JsonNumber]) }
  \cup { OkResponse([detections |-> JsonList(l)]) :
           l \in { <<>>, <<RetryDet(0, 90)>>,
                   <<RetryDet(1, 60), RetryDet(0, 90)>>,
                   <<[class |-> 1, bbox |-> "box"]>> } }

\* The two-session specification: what POST /setup can write, and what
\* the provider answers.
SetupBodies ==
  { NoField,
    [video_source |-> "clip.mp4"],
    [class_names |-> <<"Hen">>, video_source |-> "1"],
    [class_names |-> <<"Hen", "Rooster">>] }
TwoResponses ==
  { OkResponse([detections |-> JsonList(l)]) :
      l \in { <<>>, <<RetryDet(0, 90)>>,
              <<RetryDet(1, 60), RetryDet(0, 90)>> } }

\* Frame shapes given to the encoder.
FrameWidths == {1, 320, 639, 640, 641, 800, 1000, 1280, 1920, 3840}
FrameHeights == {5, 120, 240, 480, 721, 998, 1080, 2160}
FrameShapes == { [w |-> w, h |-> h] : w \in FrameWidths, h \in FrameHeights }

\* Frames of a session: one that is resized, and one so flat that its
\* resized height is 0.
SessionShapes == { [w |-> 1280, h |-> 720], [w |-> 3840, h |-> 5] }
\* A frame that is encoded as it is.
PlainShapes == { [w |-> 640, h |-> 480] }
\* The encoder specification: the provider times out or detects class 0.
EncodeResponses ==
  { [kind |-> "timeout"],
    OkResponse([detections |-> JsonList(<<WindowDet(90)>>)]) }

\* ------------------------------------------------------------------- state

VARIABLES
  setup,        \* what CONFIG_FILE holds
  pc,           \* where each session's coroutine stands
  client,       \* "connected" or "gone", per session
  cancelled,    \* the session's task was cancelled
  class_names,  \* the session's copy of the class names
  history,      \* per session: class index -> deque of 0/1
  source,       \* the video source the session gave to VideoCapture
  cap,          \* "none", "unopened", "opened" or "released"
  releases,     \* calls of cap.release()
  frame,        \* frames read successfully so far
  pos,          \* the source's position: index of the next frame
  calls,        \* _call_model calls so far
  response,     \* this iteration: what the provider answered
  detections,   \* this iteration: what _call_model returned
  stable,       \* this iteration: the stabilized list
  sent,         \* frame messages the client received
  errors_sent,  \* error messages the client received
  ws_closed,    \* websocket.close() was called
  image,        \* this iteration: shape of the frame cap.read() gave
  encoded,      \* this iteration: shape of the image _encode_frame made
  train_running,  \* _train_running
  train_logs,     \* _train_logs
  train_error,    \* _train_error
  train_output,   \* _train_output
  train_threads,  \* the run() threads: where each stands, and its arguments
  train_reply     \* what the last POST /train/start answered

sessVars ==
  << pc, client, cancelled, class_names, history, source, cap, releases,
     frame, pos, calls, response, detections, stable, sent, errors_sent,
     ws_closed >>
encVars == << image, encoded >>
trainVars ==
  << train_running, train_logs, train_error, train_output, train_threads,
     train_reply >>
vars == << setup, sessVars, encVars, trainVars >>

\* ----------------------------------------------------------- configuration

\* Env defaults: VIDEO_SOURCE and CLASS_NAMES as main.py sets them when the
\* environment does not.
EnvVideoSource == "0"
EnvClassNames == <<"Chicken 1", "Chicken 2", "Chicken 3", "Chicken 4">>

\* _load_setup returns None: no CONFIG_FILE, or one that does not parse.
NoSetup == [missing |-> TRUE]

\* _get_runtime_config: env defaults when _load_setup gives None or an
\* empty object, else the saved keys with env defaults for the absent ones.
_get_runtime_config(file) ==
  IF file = NoSetup \/ DOMAIN file = {}
  THEN [video_source |-> EnvVideoSource, class_names |-> EnvClassNames]
  ELSE [video_source |-> IF "video_source" \in DOMAIN file
                         THEN file.video_source ELSE EnvVideoSource,
        class_names |-> IF "class_names" \in DOMAIN file
                        THEN file.class_names ELSE EnvClassNames]

\* Strings int() accepts, with their values.
IntStrings ==
  [x \in {"0", "1", "50"} |-> IF x = "0" THEN 0 ELSE IF x = "1" THEN 1 ELSE 50]

\* _parse_video_source: a device index when int(raw) succeeds, else raw.
_parse_video_source(raw) ==
  IF raw \in DOMAIN IntStrings
  THEN [index |-> IntStrings[raw]]
  ELSE [uri |-> raw]

\* No VideoCapture was created yet.
NoSource == [none |-> TRUE]

\* ------------------------------------------------------- stability filter

RECURSIVE Sum(_)
Sum(q) == IF q = <<>> THEN 0 ELSE Head(q) + Sum(Tail(q))

\* Variant of DequeAppend: a deque without maxlen.
DequeAppendUnbounded(q, x) == Append(q, x)

\* deque(maxlen=10).append
DequeAppend(q, x) ==
  IF Len(q) >= HistoryLen THEN Append(Tail(q), x) ELSE Append(q, x)

num_classes(names) == Len(names)

\* {d["class"] for d in detections}
DetectedClasses(dets) == { dets[i].class : i \in 1..Len(dets) }

\* Variants of UpdateHistory: class indices wrapped into the configured
\* range; no update for a frame without detections.
UpdateHistoryWrapped(h, n, dets) ==
  [cls \in 0..(n - 1) |->
     DequeAppend(h[cls],
                 IF \E c \in DetectedClasses(dets) : c % n = cls
                 THEN 1 ELSE 0)]
UpdateHistoryUnlessEmpty(h, n, dets) ==
  IF dets = <<>> THEN h
  ELSE [cls \in 0..(n - 1) |->
          DequeAppend(h[cls], IF cls \in DetectedClasses(dets) THEN 1 ELSE 0)]

\* Variant of UpdateHistory: only the detected classes get an entry.
UpdateHistoryDetectedOnly(h, n, dets) ==
  [cls \in 0..(n - 1) |->
     IF cls \in DetectedClasses(dets) THEN DequeAppend(h[cls], 1) ELSE h[cls]]

\* for cls in range(num_classes): history[cls].append(1 if cls in ... else 0)
UpdateHistory(h, n, dets) ==
  [cls \in 0..(n - 1) |->
     DequeAppend(h[cls], IF cls \in DetectedClasses(dets) THEN 1 ELSE 0)]

\* Variants of RatioOk: the comparison turned round; the capacity as the
\* denominator.
RatioOkFlipped(q) == Sum(q) * RatioDen <= RatioNum * Len(q)
RatioOkCapacity(q) == Sum(q) * RatioDen >= RatioNum * HistoryLen

\* sum(q) / len(q) >= 0.8
RatioOk(q) == Sum(q) * RatioDen >= RatioNum * Len(q)

\* The condition of the list comprehension, for a detection whose class is
\* a key of the histories or is not below num_classes.
Keep(h, n, d) ==
  /\ d.class < n
  /\ Len(h[d.class]) > 0
  /\ RatioOk(h[d.class])

\* history[d["class"]] raises KeyError: the class passed d["class"] <
\* num_classes and is no key.
FilterRaises(h, n, dets) ==
  \E i \in 1..Len(dets) : dets[i].class < n /\ dets[i].class \notin DOMAIN h

\* Variant of FilterStable: a class that is stable by its history but not
\* in the frame's detections is reported from memory.
FilterStableFromHistory(h, n, dets) ==
  SelectSeq(dets, LAMBDA d : Keep(h, n, d))
  \o SelectSeq([c \in 1..n |-> [class |-> c - 1, confidence |-> 0,
                                bbox |-> "box"]],
               LAMBDA d : RatioOk(h[d.class])
                          /\ d.class \notin DetectedClasses(dets))

FilterStable(h, n, dets) == SelectSeq(dets, LAMBDA d : Keep(h, n, d))

\* Variant of InsertDesc: an element goes before the earlier elements of
\* equal confidence (a sort that is not stable).
RECURSIVE InsertDescUnstable(_, _)
InsertDescUnstable(sorted, d) ==
  IF sorted = <<>> THEN <<d>>
  ELSE IF Head(sorted).confidence > d.confidence
       THEN <<Head(sorted)>> \o InsertDescUnstable(Tail(sorted), d)
       ELSE <<d>> \o sorted

\* list.sort(key=confidence, reverse=True): stable, so an element goes
\* behind every earlier element whose confidence is not smaller.
RECURSIVE InsertDesc(_, _)
InsertDesc(sorted, d) ==
  IF sorted = <<>> THEN <<d>>
  ELSE IF Head(sorted).confidence >= d.confidence
       THEN <<Head(sorted)>> \o InsertDesc(Tail(sorted), d)
       ELSE <<d>> \o sorted

RECURSIVE SortByConfidence(_)
SortByConfidence(l) ==
  IF l = <<>> THEN <<>>
  ELSE InsertDesc(SortByConfidence(SubSeq(l, 1, Len(l) - 1)), l[Len(l)])

\* Variant of Truncate: no cut.
TruncateNone(l, n) == l

\* stable[:num_classes]
Truncate(l, n) == SubSeq(l, 1, IF Len(l) < n THEN Len(l) ELSE n)

\* ------------------------------------------------------- provider client

\* _call_model: the except branch gives [], a body without the field gives
\* the default [], otherwise whatever the field holds.
_call_model(resp) ==
  IF resp.kind # "ok" THEN JsonList(<<>>)
  ELSE IF "detections" \in DOMAIN resp.body THEN resp.body.detections
       ELSE JsonList(<<>>)

\* ------------------------------------------------------ transport encoder

NoImage == [ok |-> FALSE]

\* Variant of _encode_frame: the height rounded to the nearest integer.
_encode_frame_rounded(w, h) ==
  IF w > EncodeWidth
  THEN LET nh == (2 * EncodeWidth * h + w) \div (2 * w)
       IN IF nh = 0 THEN NoImage ELSE [ok |-> TRUE, w |-> EncodeWidth, h |-> nh]
  ELSE [ok |-> TRUE, w |-> w, h |-> h]

\* _encode_frame: the shape of the image handed to cv2.imencode.  int()
\* cuts the quotient toward zero; cv2.resize raises for a height of 0.
_encode_frame(w, h) ==
  IF w > EncodeWidth
  THEN LET nh == (EncodeWidth * h) \div w
       IN IF nh = 0 THEN NoImage ELSE [ok |-> TRUE, w |-> EncodeWidth, h |-> nh]
  ELSE [ok |-> TRUE, w |-> w, h |-> h]

\* ---------------------------------------------------------------- training

\* JSON values of a request body: a number or a string.
Num(n) == [number |-> n]
Str(x) == [string |-> x]

\* Bodies of POST /train/start: each key may be absent.
TrainBodies ==
  { [k \in keys |-> CASE k = "epochs" -> e [] k = "imgsz" -> i
                       [] OTHER -> Str("run2")] :
      keys \in SUBSET {"epochs", "imgsz", "output"},
      e \in {Num(5), Str("50"), Str("abc")},
      i \in {Num(320), Str("big")} }

\* int(v) raises: v is a string int() does not accept.
IntRaises(v) == "string" \in DOMAIN v /\ v.string \notin DOMAIN IntStrings

\* int(v) for a value it accepts.
PyInt(v) == IF "number" \in DOMAIN v THEN v.number ELSE IntStrings[v.string]

\* body.get(key, default)
BodyGet(body, key, default) ==
  IF key \in DOMAIN body THEN body[key] ELSE default

None == [none |-> TRUE]
Unborn == [at |-> "unborn"]
TrainLines == {"", "epoch 1/5"}

\* The threads that have been started and have not left run().
Alive == { t \in DOMAIN train_threads :
             train_threads[t].at \in {"popen", "piping", "finally"} }

InitTrain ==
  /\ train_running = FALSE
  /\ train_logs = <<>>
  /\ train_error = None
  /\ train_output = None
  /\ train_threads = [t \in 1..MaxTrainRuns |-> Unborn]
  /\ train_reply = None

\* Variant of TrainStart: the running flag is set without being tested.
TrainStartUnguarded(body) ==
  /\ LET epochs == BodyGet(body, "epochs", Num(DefaultEpochs))
         imgsz == BodyGet(body, "imgsz", Num(DefaultImgsz))
         output == BodyGet(body, "output", Str("trained"))
     IN
     /\ train_running' = TRUE
     /\ train_logs' = <<>>
     /\ train_error' = None
     /\ train_output' = None
     /\ IF IntRaises(epochs) \/ IntRaises(imgsz)
        THEN /\ train_reply' = [raised |-> "ValueError"]
             /\ UNCHANGED train_threads
        ELSE \E t \in DOMAIN train_threads :
               /\ train_threads[t] = Unborn
               /\ \A u \in 1..(t - 1) : train_threads[u] # Unborn
               /\ train_threads' =
                    [train_threads EXCEPT ![t] =
                       [at |-> "popen", epochs |-> PyInt(epochs),
                        imgsz |-> PyInt(imgsz), output |-> output.string]]
               /\ train_reply' = [ok |-> TRUE]
  /\ UNCHANGED << setup, sessVars, encVars >>

\* train_start (POST /train/start): under the lock the running flag is
\* tested and set and the logs, error and output are cleared; then the
\* body is read, epochs and imgsz through int(), and the thread is started.
\* An exception of int() ends the handler where it is raised.
TrainStart(body) ==
  /\ IF train_running
     THEN /\ train_reply' = [error |-> "Training is already running"]
          /\ UNCHANGED << train_running, train_logs, train_error,
                          train_output, train_threads >>
     ELSE LET epochs == BodyGet(body, "epochs", Num(DefaultEpochs))
              imgsz == BodyGet(body, "imgsz", Num(DefaultImgsz))
              output == BodyGet(body, "output", Str("trained"))
          IN
          /\ train_running' = TRUE
          /\ train_logs' = <<>>
          /\ train_error' = None
          /\ train_output' = None
          /\ IF IntRaises(epochs) \/ IntRaises(imgsz)
             THEN /\ train_reply' = [raised |-> "ValueError"]
                  /\ UNCHANGED train_threads
             ELSE \E t \in DOMAIN train_threads :
                    /\ train_threads[t] = Unborn
                    /\ \A u \in 1..(t - 1) : train_threads[u] # Unborn
                    /\ train_threads' =
                         [train_threads EXCEPT ![t] =
                            [at |-> "popen", epochs |-> PyInt(epochs),
                             imgsz |-> PyInt(imgsz), output |-> output.string]]
                    /\ train_reply' = [ok |-> TRUE]
  /\ UNCHANGED << setup, sessVars, encVars >>

\* run(): subprocess.Popen returns, or raises (the except clause stores
\* str(e) as the error).
Popen(t, launches) ==
  /\ train_threads[t].at = "popen"
  /\ \E ok \in launches :
       IF ok
       THEN /\ train_threads' = [train_threads EXCEPT ![t].at = "piping"]
            /\ UNCHANGED train_error
       ELSE /\ train_threads' = [train_threads EXCEPT ![t].at = "finally"]
            /\ train_error' = Str("launch failed")
  /\ UNCHANGED << train_running, train_logs, train_output, train_reply,
                  setup, sessVars, encVars >>

\* run(): one line of the subprocess's output; a line that is empty after
\* rstrip() is not logged.
Pipe(t, lines) ==
  /\ train_threads[t].at = "piping"
  /\ Len(train_logs) < MaxLogLines
  /\ \E line \in lines :
       /\ line # ""
       /\ train_logs' = Append(train_logs, line)
  /\ UNCHANGED << train_running, train_error, train_output, train_threads,
                  train_reply, setup, sessVars, encVars >>

\* run(): the output ends and proc.wait() returns: an exit code other than
\* 0 is stored as the error, else the output file's name is stored.
Exit(t, codes) ==
  /\ train_threads[t].at = "piping"
  /\ \E rc \in codes :
       IF rc # 0
       THEN /\ train_error' = Str("Training failed (exit code 1)")
            /\ UNCHANGED train_output
       ELSE /\ train_output' = Str(train_threads[t].output \o ".pt")
            /\ UNCHANGED train_error
  /\ train_threads' = [train_threads EXCEPT ![t].at = "finally"]
  /\ UNCHANGED << train_running, train_logs, train_reply, setup, sessVars,
                  encVars >>

\* run(): the finally clause clears the running flag and the thread ends.
Finally(t) ==
  /\ train_threads[t].at = "finally"
  /\ train_running' = FALSE
  /\ train_threads' = [train_threads EXCEPT ![t].at = "ended"]
  /\ UNCHANGED << train_logs, train_error, train_output, train_reply, setup,
                  sessVars, encVars >>

\* ------------------------------------------------------------ the session

AwaitPoints ==
  {"accept", "send_error", "ws_close", "call", "send", "sleep", "backoff"}
InTry == {"read", "call", "send", "sleep", "backoff"}

\* The states of the session state machine.
State(s) ==
  CASE pc[s] = "idle" -> "IDLE"
    [] pc[s] \in {"accept", "send_error", "ws_close"} -> "OPENING"
    [] pc[s] \in InTry -> "STREAMING"
    [] OTHER -> "CLOSED"

NoResponse == [kind |-> "none"]

InitSessions ==
  /\ pc = [s \in Sessions |-> IF s = 1 THEN "accept" ELSE "idle"]
  /\ client = [s \in Sessions |-> "connected"]
  /\ cancelled = [s \in Sessions |-> FALSE]
  /\ class_names = [s \in Sessions |-> <<>>]
  /\ history = [s \in Sessions |-> <<>>]
  /\ source = [s \in Sessions |-> NoSource]
  /\ cap = [s \in Sessions |-> "none"]
  /\ releases = [s \in Sessions |-> 0]
  /\ frame = [s \in Sessions |-> 0]
  /\ pos = [s \in Sessions |-> 0]
  /\ calls = [s \in Sessions |-> 0]
  /\ response = [s \in Sessions |-> NoResponse]
  /\ detections = [s \in Sessions |-> JsonList(<<>>)]
  /\ stable = [s \in Sessions |-> <<>>]
  /\ sent = [s \in Sessions |-> 0]
  /\ errors_sent = [s \in Sessions |-> 0]
  /\ ws_closed = [s \in Sessions |-> FALSE]

NoFrame == [none |-> TRUE]
NotEncoded == [state |-> "none"]

InitEncoder ==
  /\ image = [s \in Sessions |-> NoFrame]
  /\ encoded = [s \in Sessions |-> NotEncoded]

Init ==
  /\ setup \in { [class_names |-> n, video_source |-> EnvVideoSource] :
                  n \in ClassNameChoices }
  /\ InitSessions
  /\ InitEncoder
  /\ InitTrain

\* The try block is left: except (if any) and finally: cap.release().
LeaveTry(s) ==
  /\ pc' = [pc EXCEPT ![s] = "done"]
  /\ cap' = [cap EXCEPT ![s] = "released"]
  /\ releases' = [releases EXCEPT ![s] = @ + 1]

\* A client connects to /ws/video: ws_video starts and awaits accept().
Connect(s) ==
  /\ pc[s] = "idle"
  /\ pc' = [pc EXCEPT ![s] = "accept"]
  /\ UNCHANGED << setup, client, cancelled, class_names, history, source, cap,
                  releases, frame, pos, calls, response, detections, stable,
                  sent, errors_sent, ws_closed, encVars,
                  trainVars >>

\* Variant of SaveSetup: the class names are one module-level list, which
\* the handler also replaces for the sessions that are running.
SaveSetupShared(body) ==
  /\ setup' = body
  /\ class_names' =
       [s \in Sessions |->
          IF pc[s] \in {"idle", "accept", "done"} THEN class_names[s]
          ELSE _get_runtime_config(body).class_names]
  /\ UNCHANGED << pc, client, cancelled, history, source, cap, releases,
                  frame, pos, calls, response, detections, stable, sent,
                  errors_sent, ws_closed, encVars,
                  trainVars >>

\* save_setup (POST /setup): the body replaces CONFIG_FILE.  The reload
\* request it then sends to the model server touches no state of a session.
SaveSetup(body) ==
  /\ setup' = body
  /\ UNCHANGED << sessVars, encVars,
                  trainVars >>

\* Variant of Open: cap.isOpened() is not checked.
OpenUnchecked(s, canOpen) ==
  /\ pc[s] = "accept"
  /\ \E ok \in canOpen :
       LET cfg == _get_runtime_config(setup)
       IN
       /\ class_names' = [class_names EXCEPT ![s] = cfg.class_names]
       /\ history' = [history EXCEPT ![s] =
                        [i \in 0..(num_classes(cfg.class_names) - 1) |-> <<>>]]
       /\ source' = [source EXCEPT ![s] =
                       _parse_video_source(cfg.video_source)]
       /\ cap' = [cap EXCEPT ![s] = IF ok THEN "opened" ELSE "unopened"]
       /\ pc' = [pc EXCEPT ![s] = "read"]
  /\ UNCHANGED << setup, client, cancelled, releases, frame, calls, response,
                  detections, stable, sent, errors_sent, ws_closed, pos,
                  encVars, trainVars >>

\* Lines 322-339: accept returns, the configuration is read, the histories
\* are created and the source is opened.
Open(s, canOpen) ==
  /\ pc[s] = "accept"
  /\ \E ok \in canOpen :
       LET cfg == _get_runtime_config(setup)
       IN
       /\ class_names' = [class_names EXCEPT ![s] = cfg.class_names]
       /\ history' = [history EXCEPT ![s] =
                        [i \in 0..(num_classes(cfg.class_names) - 1) |-> <<>>]]
       /\ source' = [source EXCEPT ![s] =
                       _parse_video_source(cfg.video_source)]
       /\ cap' = [cap EXCEPT ![s] = IF ok THEN "opened" ELSE "unopened"]
       /\ pc' = [pc EXCEPT ![s] = IF ok THEN "read" ELSE "send_error"]
  /\ UNCHANGED << setup, client, cancelled, releases, frame, calls, response,
                  detections, stable, sent, errors_sent, ws_closed, pos,
                  encVars, trainVars >>

\* Line 337: send_json of the error message; it raises when the client is
\* gone, and nothing catches it there.
SendError(s) ==
  /\ pc[s] = "send_error"
  /\ IF client[s] = "connected"
     THEN /\ errors_sent' = [errors_sent EXCEPT ![s] = @ + 1]
          /\ pc' = [pc EXCEPT ![s] = "ws_close"]
     ELSE /\ pc' = [pc EXCEPT ![s] = "done"]
          /\ UNCHANGED errors_sent
  /\ UNCHANGED << setup, client, cancelled, class_names, history, cap,
                  releases, frame, calls, response, detections, stable, sent,
                  ws_closed, pos,
                  source, encVars,
                  trainVars >>

\* Lines 338-339: close the connection and return.
WsClose(s) ==
  /\ pc[s] = "ws_close"
  /\ ws_closed' = [ws_closed EXCEPT ![s] = TRUE]
  /\ pc' = [pc EXCEPT ![s] = "done"]
  /\ UNCHANGED << setup, client, cancelled, class_names, history, cap,
                  releases, frame, calls, response, detections, stable, sent,
                  errors_sent, pos,
                  source, encVars,
                  trainVars >>

\* Variant of Read: a failed read does not seek back to frame 0.
ReadNoSeek(s, outcomes, maxFrames, shapes) ==
  /\ pc[s] = "read"
  /\ \E ret \in outcomes :
       IF ret
       THEN /\ frame[s] < maxFrames
            /\ \E shape \in shapes : image' = [image EXCEPT ![s] = shape]
            /\ frame' = [frame EXCEPT ![s] = @ + 1]
            /\ pos' = [pos EXCEPT ![s] = @ + 1]
            /\ calls' = [calls EXCEPT ![s] = @ + 1]
            /\ pc' = [pc EXCEPT ![s] = "call"]
       ELSE /\ image' = [image EXCEPT ![s] = NoFrame]
            /\ pc' = [pc EXCEPT ![s] = "backoff"]
            /\ UNCHANGED << frame, pos, calls >>
  /\ response' = [response EXCEPT ![s] = NoResponse]
  /\ detections' = [detections EXCEPT ![s] = JsonList(<<>>)]
  /\ stable' = [stable EXCEPT ![s] = <<>>]
  /\ encoded' = [encoded EXCEPT ![s] = NotEncoded]
  /\ UNCHANGED << setup, client, cancelled, class_names, history, cap,
                  releases, sent, errors_sent, ws_closed, source, trainVars >>

\* Lines 343-348: cap.read() at the top of an iteration, whose detections
\* and stabilized list are not computed yet (the previous iteration's are
\* never read again).  A failed read seeks to frame 0 and sleeps.
Read(s, outcomes, maxFrames, shapes) ==
  /\ pc[s] = "read"
  /\ \E ret \in outcomes :
       IF ret
       THEN /\ frame[s] < maxFrames
            /\ \E shape \in shapes : image' = [image EXCEPT ![s] = shape]
            /\ frame' = [frame EXCEPT ![s] = @ + 1]
            /\ pos' = [pos EXCEPT ![s] = @ + 1]
            /\ calls' = [calls EXCEPT ![s] = @ + 1]
            /\ pc' = [pc EXCEPT ![s] = "call"]
       ELSE /\ pos' = [pos EXCEPT ![s] = 0]
            /\ image' = [image EXCEPT ![s] = NoFrame]
            /\ pc' = [pc EXCEPT ![s] = "backoff"]
            /\ UNCHANGED << frame, calls >>
  /\ response' = [response EXCEPT ![s] = NoResponse]
  /\ detections' = [detections EXCEPT ![s] = JsonList(<<>>)]
  /\ stable' = [stable EXCEPT ![s] = <<>>]
  /\ encoded' = [encoded EXCEPT ![s] = NotEncoded]
  /\ UNCHANGED << setup, client, cancelled, class_names, history, cap,
                  releases, sent, errors_sent, ws_closed, source, trainVars >>

\* Line 347: asyncio.sleep(0.1) returns.
Backoff(s) ==
  /\ pc[s] = "backoff"
  /\ pc' = [pc EXCEPT ![s] = "read"]
  /\ UNCHANGED << setup, client, cancelled, class_names, history, cap,
                  releases, frame, calls, response, detections, stable, sent,
                  errors_sent, ws_closed, pos,
                  source, encVars,
                  trainVars >>

\* Line 352 raises: detections is no list of objects with a "class" key.
SetRaises(v) ==
  \/ v.type # "list"
  \/ \E i \in 1..Len(v.items) : "class" \notin DOMAIN v.items[i]

\* Line 362 raises: a survivor of the filter has no "confidence" key.
SortRaises(l) == \E i \in 1..Len(l) : "confidence" \notin DOMAIN l[i]

\* _draw raises: a detection to draw has no "bbox" key.
DrawRaises(l) == \E i \in 1..Len(l) : "bbox" \notin DOMAIN l[i]

\* Variant of Frame: the histories are one module-level dict, which every
\* session's update replaces.
FrameSharedHistory(s, responses) ==
  /\ pc[s] = "call"
  /\ \E resp \in responses :
       LET v == _call_model(resp)
           n == num_classes(class_names[s])
           img == _encode_frame(image[s].w, image[s].h)
       IN
       /\ response' = [response EXCEPT ![s] = resp]
       /\ detections' = [detections EXCEPT ![s] = v]
       /\ IF SetRaises(v)
          THEN LeaveTry(s) /\ UNCHANGED << history, stable, encoded >>
          ELSE LET h == UpdateHistory(history[s], n, v.items)
                   kept == FilterStable(h, n, v.items)
                   out == Truncate(SortByConfidence(kept), n)
               IN
               /\ history' = [t \in Sessions |-> h]
               /\ IF FilterRaises(h, n, v.items)
                  THEN LeaveTry(s) /\ UNCHANGED << stable, encoded >>
                  ELSE IF SortRaises(kept)
                  THEN /\ LeaveTry(s)
                       /\ stable' = [stable EXCEPT ![s] = kept]
                       /\ UNCHANGED encoded
                  ELSE IF DrawRaises(out)
                  THEN /\ LeaveTry(s)
                       /\ stable' = [stable EXCEPT ![s] = out]
                       /\ UNCHANGED encoded
                  ELSE /\ stable' = [stable EXCEPT ![s] = out]
                       /\ encoded' = [encoded EXCEPT ![s] = img]
                       /\ IF img = NoImage
                          THEN LeaveTry(s)
                          ELSE /\ pc' = [pc EXCEPT ![s] = "send"]
                               /\ UNCHANGED << cap, releases >>
  /\ UNCHANGED << setup, client, cancelled, class_names, frame, calls, sent,
                  errors_sent, ws_closed, pos,
                  source, image,
                  trainVars >>

\* Lines 350-366: _call_model returns, then the histories are updated and
\* the detections filtered, sorted, cut, drawn and the frame encoded, up to
\* the await of send_json.  An exception on the way leaves the try block.
Frame(s, responses) ==
  /\ pc[s] = "call"
  /\ \E resp \in responses :
       LET v == _call_model(resp)
           n == num_classes(class_names[s])
           img == _encode_frame(image[s].w, image[s].h)
       IN
       /\ response' = [response EXCEPT ![s] = resp]
       /\ detections' = [detections EXCEPT ![s] = v]
       /\ IF SetRaises(v)
          THEN LeaveTry(s) /\ UNCHANGED << history, stable, encoded >>
          ELSE LET h == UpdateHistory(history[s], n, v.items)
                   kept == FilterStable(h, n, v.items)
                   out == Truncate(SortByConfidence(kept), n)
               IN
               /\ history' = [history EXCEPT ![s] = h]
               /\ IF FilterRaises(h, n, v.items)
                  THEN LeaveTry(s) /\ UNCHANGED << stable, encoded >>
                  ELSE IF SortRaises(kept)
                  THEN /\ LeaveTry(s)
                       /\ stable' = [stable EXCEPT ![s] = kept]
                       /\ UNCHANGED encoded
                  ELSE IF DrawRaises(out)
                  THEN /\ LeaveTry(s)
                       /\ stable' = [stable EXCEPT ![s] = out]
                       /\ UNCHANGED encoded
                  ELSE /\ stable' = [stable EXCEPT ![s] = out]
                       /\ encoded' = [encoded EXCEPT ![s] = img]
                       /\ IF img = NoImage
                          THEN LeaveTry(s)
                          ELSE /\ pc' = [pc EXCEPT ![s] = "send"]
                               /\ UNCHANGED << cap, releases >>
  /\ UNCHANGED << setup, client, cancelled, class_names, frame, calls, sent,
                  errors_sent, ws_closed, pos,
                  source, image,
                  trainVars >>

\* Variant of Send: the message is handed to a background task and the
\* loop goes on without waiting for it.
SendDetached(s) ==
  /\ pc[s] = "send"
  /\ pc' = [pc EXCEPT ![s] = "sleep"]
  /\ UNCHANGED << setup, client, cancelled, class_names, history, source, cap,
                  releases, frame, pos, calls, response, detections, stable,
                  sent, errors_sent, ws_closed, encVars,
                  trainVars >>

\* Lines 368-372: send_json of the frame message, which carries the frame
\* and the stabilized list; it raises when the client is gone, which the
\* except clause catches.
Send(s) ==
  /\ pc[s] = "send"
  /\ IF client[s] = "connected"
     THEN /\ sent' = [sent EXCEPT ![s] = @ + 1]
          /\ pc' = [pc EXCEPT ![s] = "sleep"]
          /\ UNCHANGED << cap, releases >>
     ELSE /\ LeaveTry(s)
          /\ UNCHANGED sent
  /\ UNCHANGED << setup, client, cancelled, class_names, history, frame,
                  calls, response, detections, stable, errors_sent,
                  ws_closed, pos,
                  source, encVars,
                  trainVars >>

\* Line 374: asyncio.sleep(0.001) returns.
Sleep(s) ==
  /\ pc[s] = "sleep"
  /\ pc' = [pc EXCEPT ![s] = "read"]
  /\ UNCHANGED << setup, client, cancelled, class_names, history, cap,
                  releases, frame, calls, response, detections, stable, sent,
                  errors_sent, ws_closed, pos,
                  source, encVars,
                  trainVars >>

\* The task is cancelled while it waits: CancelledError is raised at the
\* await.  Inside the try block the finally clause runs.
Cancel(s) ==
  /\ pc[s] \in AwaitPoints
  /\ cancelled' = [cancelled EXCEPT ![s] = TRUE]
  /\ IF pc[s] \in InTry
     THEN LeaveTry(s)
     ELSE pc' = [pc EXCEPT ![s] = "done"] /\ UNCHANGED << cap, releases >>
  /\ UNCHANGED << setup, client, class_names, history, frame, calls,
                  response, detections, stable, sent, errors_sent, ws_closed,
                  pos,
                  source, encVars,
                  trainVars >>

\* The client goes away.
Disconnect(s) ==
  /\ pc[s] \notin {"idle", "done"}
  /\ client[s] = "connected"
  /\ client' = [client EXCEPT ![s] = "gone"]
  /\ UNCHANGED << setup, pc, cancelled, class_names, history, cap, releases,
                  frame, calls, response, detections, stable, sent,
                  errors_sent, ws_closed, pos,
                  source, encVars,
                  trainVars >>

\* One session, every outcome the environment can produce.
Next ==
  \/ Open(1, BOOLEAN)
  \/ SendError(1)
  \/ WsClose(1)
  \/ Read(1, BOOLEAN, MaxFrames, SessionShapes)
  \/ Backoff(1)
  \/ Frame(1, Responses)
  \/ Send(1)
  \/ Sleep(1)
  \/ Cancel(1)
  \/ Disconnect(1)

Spec == Init /\ [][Next]_vars

\* One session with one class over a long run of frames: the source opens,
\* every read succeeds, the provider answers or times out and the client
\* stays.
InitWindow ==
  /\ setup = [class_names |-> <<"Chicken 1">>,
              video_source |-> EnvVideoSource]
  /\ InitSessions
  /\ InitEncoder
  /\ InitTrain

NextWindow ==
  \/ Open(1, {TRUE})
  \/ Read(1, {TRUE}, MaxWindowFrames, PlainShapes)
  \/ Frame(1, WindowResponses)
  \/ Send(1)
  \/ Sleep(1)

SpecWindow == InitWindow /\ [][NextWindow]_vars

\* One session with two classes: reads fail or succeed, the provider fails
\* or answers, the client may go away and the task may be cancelled.
InitRetry ==
  /\ setup = [class_names |-> <<"Chicken 1", "Chicken 2">>,
              video_source |-> EnvVideoSource]
  /\ InitSessions
  /\ InitEncoder
  /\ InitTrain

NextRetry ==
  \/ Open(1, BOOLEAN)
  \/ SendError(1)
  \/ WsClose(1)
  \/ Read(1, BOOLEAN, MaxFrames, SessionShapes)
  \/ Backoff(1)
  \/ Frame(1, RetryResponses)
  \/ Send(1)
  \/ Sleep(1)
  \/ Cancel(1)
  \/ Disconnect(1)

SpecRetry == InitRetry /\ [][NextRetry]_vars

\* The same session under the event loop's scheduling: a coroutine that
\* can go on does go on (a sleep ends, the provider call returns within its
\* timeout, a send returns or raises).  Nothing obliges the client to leave
\* or the task to be cancelled.
RunRetry ==
  \/ Open(1, BOOLEAN)
  \/ SendError(1)
  \/ WsClose(1)
  \/ Read(1, BOOLEAN, MaxFrames, SessionShapes)
  \/ Backoff(1)
  \/ Frame(1, RetryResponses)
  \/ Send(1)
  \/ Sleep(1)

NextRetryFair == RunRetry \/ Cancel(1) \/ Disconnect(1)

SpecRetryFair == InitRetry /\ [][NextRetryFair]_vars /\ WF_vars(RunRetry)

\* Two clients and the setup endpoint: no setup was saved yet, each source
\* opens, every read succeeds, the provider answers and the clients stay.
InitTwo ==
  /\ setup = NoSetup
  /\ InitSessions
  /\ InitEncoder
  /\ InitTrain

NextTwo ==
  \/ \E body \in SetupBodies : SaveSetup(body)
  \/ \E s \in Sessions :
       \/ Connect(s)
       \/ Open(s, {TRUE})
       \/ Read(s, {TRUE}, MaxTwoFrames, PlainShapes)
       \/ Frame(s, TwoResponses)
       \/ Send(s)
       \/ Sleep(s)

SpecTwo == InitTwo /\ [][NextTwo]_vars

\* The encoder in a session, on every frame shape: the source opens, every
\* read succeeds and the client stays.
InitEncode ==
  /\ setup = [class_names |-> <<"Chicken 1">>,
              video_source |-> EnvVideoSource]
  /\ InitSessions
  /\ InitEncoder
  /\ InitTrain

NextEncode ==
  \/ Open(1, {TRUE})
  \/ Read(1, {TRUE}, MaxEncodeFrames, FrameShapes)
  \/ Frame(1, EncodeResponses)
  \/ Send(1)
  \/ Sleep(1)

SpecEncode == InitEncode /\ [][NextEncode]_vars

\* The training endpoint and its thread: any body, a subprocess that does
\* or does not launch, prints, and exits with 0 or 1.
InitTraining ==
  /\ setup = NoSetup
  /\ InitSessions
  /\ InitEncoder
  /\ InitTrain

NextTraining ==
  \/ \E body \in TrainBodies : TrainStart(body)
  \/ \E t \in 1..MaxTrainRuns :
       \/ Popen(t, BOOLEAN)
       \/ Pipe(t, TrainLines)
       \/ Exit(t, {0, 1})
       \/ Finally(t)

SpecTraining == InitTraining /\ [][NextTraining]_vars

\* The same under the scheduler: a started thread runs on, and the
\* subprocess ends.
RunThreads ==
  \E t \in 1..MaxTrainRuns :
    Popen(t, BOOLEAN) \/ Exit(t, {0, 1}) \/ Finally(t)

SpecTrainingFair == SpecTraining /\ WF_vars(RunThreads)

\* ------------------------------------------------------------------ claims

\* The message of the current frame is built: it awaits send_json or has
\* just been sent.  It carries stable[s].
MessageBuilt(s) == pc[s] \in {"send", "sleep"}
MessageSent(s) == pc[s] = "sleep"

\* The number of 1 entries of a history.
Ones(q) == Cardinality({ i \in 1..Len(q) : q[i] = 1 })

\* Presence ratio >= 0.8, i.e. ones / length >= 4/5.
AtLeast80(q) == Len(q) > 0 /\ 5 * Ones(q) >= 4 * Len(q)

\* A window of at most 10 flags after one more flag is pushed.
Pushed(q, x) ==
  IF Len(q) < 10 THEN q \o <<x>> ELSE SubSeq(q, 2, 10) \o <<x>>

ClassesOf(l) == { l[i].class : i \in 1..Len(l) }

\* C1: a detection of class c is in the stabilized list of a frame only if,
\* after that frame's history update, c's history holds at most 10 entries
\* of which at least 80% are 1.
C1_StableOnlyIfRatio ==
  \A s \in Sessions :
    MessageBuilt(s) =>
      \A i \in 1..Len(stable[s]) :
        LET c == stable[s][i].class
        IN /\ c \in DOMAIN history[s]
           /\ Len(history[s][c]) <= 10
           /\ AtLeast80(history[s][c])

\* C1 witness: the 11th frame is sent with class 0 stabilized at exactly
\* 8 of the last 10 frames.
C1_Witness ==
  /\ MessageSent(1)
  /\ frame[1] = 11
  /\ Len(stable[1]) > 0
  /\ Ones(history[1][0]) = 8

\* C2 as stated: a class present in at least 80% of its recorded history
\* is in the stabilized output of the frame, and a class below 80% is not.
C2_IncludedWheneverRatio ==
  \A s \in Sessions :
    MessageBuilt(s) =>
      \A c \in DOMAIN history[s] :
        AtLeast80(history[s][c]) <=> c \in ClassesOf(stable[s])

\* C2 amended: a class present in at least 80% of its recorded history
\* (the denominator being the number of recorded frames) that is among the
\* frame's raw detections is in the stabilized output, unless the output
\* already holds len(class_names) detections; a class below 80% is not in
\* the output.
C2_IncludedWhenDetected ==
  \A s \in Sessions :
    MessageBuilt(s) =>
      \A c \in DOMAIN history[s] :
        /\ (AtLeast80(history[s][c]) /\ c \in ClassesOf(detections[s].items))
             => \/ c \in ClassesOf(stable[s])
                \/ Len(stable[s]) = Len(class_names[s])
        /\ ~AtLeast80(history[s][c]) => c \notin ClassesOf(stable[s])

\* C2 witness: class 0 present in all 3 of only 3 observed frames and
\* included.
C2_Witness ==
  /\ MessageSent(1)
  /\ history[1][0] = <<1, 1, 1>>
  /\ 0 \in ClassesOf(stable[1])

\* C3: the stabilized list of every message has at most len(class_names)
\* entries.
C3_AtMostNumClasses ==
  \A s \in Sessions :
    MessageBuilt(s) => Len(stable[s]) <= Len(class_names[s])

\* C3 witness: a message whose raw list holds more detections than there
\* are classes, two of them of the same stable class.
C3_Witness ==
  /\ MessageSent(1)
  /\ Len(class_names[1]) = 1
  /\ Len(stable[1]) = 1
  /\ \E i, j \in 1..Len(detections[1].items) :
       /\ i < j
       /\ detections[1].items[i].class = 0
       /\ detections[1].items[j].class = 0

\* A raw detection of a configured class whose presence ratio is >= 0.8.
Survives(s, d) ==
  /\ d.class \in DOMAIN history[s]
  /\ AtLeast80(history[s][d.class])

\* The stabilized list out is raw's survivors in confidence-descending
\* order, ties in raw order, cut to its first n entries: f gives each
\* output entry's place in raw.
IsRankedPrefix(s, out, raw, n) ==
  \E f \in [1..Len(out) -> 1..Len(raw)] :
    /\ \A i \in 1..Len(out) : out[i] = raw[f[i]]
    /\ \A i, j \in 1..Len(out) :
         i < j =>
           /\ f[i] # f[j]
           /\ \/ out[i].confidence > out[j].confidence
              \/ /\ out[i].confidence = out[j].confidence
                 /\ f[i] < f[j]
    /\ \A k \in 1..Len(raw) :
         (Survives(s, raw[k]) /\ \A i \in 1..Len(out) : f[i] # k) =>
           /\ Len(out) = n
           /\ \A i \in 1..Len(out) :
                \/ out[i].confidence > raw[k].confidence
                \/ /\ out[i].confidence = raw[k].confidence
                   /\ f[i] < k

\* C4: the stabilized list is ordered by confidence descending, equal
\* confidences keep their raw order, and the cut keeps the first
\* len(class_names) entries of that order.
C4_SortedStableTies ==
  \A s \in Sessions :
    MessageBuilt(s) =>
      IsRankedPrefix(s, stable[s], detections[s].items,
                     Len(class_names[s]))

\* C4 witness: two detections of different classes and equal confidence
\* are both sent.
C4_Witness ==
  /\ MessageSent(1)
  /\ Len(stable[1]) = 2
  /\ stable[1][1].confidence = stable[1][2].confidence
  /\ stable[1][1].class # stable[1][2].class

\* A step in which _call_model returned for session s and line 352 did not
\* raise.
FrameStep(s) ==
  /\ pc[s] = "call"
  /\ response'[s] # NoResponse
  /\ ~SetRaises(detections'[s])

\* C5: a raw detection whose class is >= len(class_names) is in no
\* stabilized list, and the histories after the update are those the raw
\* list without such detections gives.
C5_OutOfRangeIgnored ==
  [][\A s \in Sessions :
       FrameStep(s) =>
         LET n == Len(class_names[s])
             raw == detections'[s].items
             present(c) == \E i \in 1..Len(raw) :
                             raw[i].class < n /\ raw[i].class = c
         IN /\ DOMAIN history'[s] = 0..(n - 1)
            /\ \A c \in 0..(n - 1) :
                 history'[s][c] =
                   Pushed(history[s][c], IF present(c) THEN 1 ELSE 0)
            /\ MessageBuilt(s)' =>
                 \A i \in 1..Len(stable'[s]) : stable'[s][i].class < n]_vars

\* C5 witness: a message is sent for a raw list holding an out-of-range
\* class next to a stable one.
C5_Witness ==
  /\ MessageSent(1)
  /\ Len(stable[1]) > 0
  /\ \E i \in 1..Len(detections[1].items) :
       detections[1].items[i].class >= Len(class_names[1])

\* _encode_frame has run on the frame session 1 read.
Encoded == encoded[1] # NotEncoded

\* C6 as stated: every frame is encoded with a width of at most 640; a
\* frame wider than 640 gets width 640 and the height 640*h/w rounded to
\* the nearest integer; a frame not wider than 640 keeps its shape.
C6_HeightRoundedToNearest ==
  Encoded =>
    LET w == image[1].w
        h == image[1].h
        img == encoded[1]
    IN /\ img.ok
       /\ img.w <= 640
       /\ w > 640 =>
            /\ img.w = 640
            /\ 2 * img.h * w - 2 * 640 * h <= w
            /\ 2 * 640 * h - 2 * img.h * w <= w
       /\ w <= 640 => (img.w = w /\ img.h = h)

\* C6 amended: _encode_frame raises for a frame wider than 640 whose
\* height 640*h/w is below 1; every other frame is encoded with a width of
\* at most 640: wider than 640, with width 640 and the height 640*h/w cut
\* to an integer (rounded down); otherwise with its shape unchanged.
C6_HeightTruncated ==
  Encoded =>
    LET w == image[1].w
        h == image[1].h
        img == encoded[1]
    IN /\ img.ok <=> ~(w > 640 /\ 640 * h < w)
       /\ img.ok =>
            /\ img.w <= 640
            /\ w > 640 =>
                 /\ img.w = 640
                 /\ img.h * w <= 640 * h
                 /\ 640 * h < (img.h + 1) * w
            /\ w <= 640 => (img.w = w /\ img.h = h)

\* C6 witness: a frame wider than 640 whose exact height has a fraction of
\* at least one half is encoded.
C6_Witness ==
  /\ Encoded
  /\ image[1].w > 640
  /\ encoded[1].ok
  /\ 2 * ((640 * image[1].h) % image[1].w) >= image[1].w

\* C7: on every path to CLOSED the frame source handle of the session is
\* released exactly once, and it is never released twice.
C7_ReleasedExactlyOnce ==
  \A s \in Sessions :
    /\ releases[s] <= 1
    /\ (pc[s] = "done" /\ cap[s] # "none") => releases[s] = 1

\* C7, the paths through the try block only: a source that was opened is
\* released exactly once when the session is CLOSED, and not before.
C7_ReleasedOnceWhenOpened ==
  \A s \in Sessions :
    /\ releases[s] <= 1
    /\ cap[s] = "opened" => (releases[s] = 0 /\ pc[s] # "done")
    /\ cap[s] = "released" => (releases[s] = 1 /\ pc[s] = "done")

\* C8: a session whose source cannot be opened never enters STREAMING,
\* never reads a frame, never calls the provider and never sends a frame
\* message; it sends at most one error message, closes the connection only
\* after it, and, its client connected and its task not cancelled, sends
\* exactly one error message and closes the connection before it is CLOSED.
C8_OpenFailure ==
  \A s \in Sessions :
    cap[s] = "unopened" =>
      /\ State(s) \in {"OPENING", "CLOSED"}
      /\ frame[s] = 0
      /\ calls[s] = 0
      /\ sent[s] = 0
      /\ \A c \in DOMAIN history[s] : history[s][c] = <<>>
      /\ errors_sent[s] <= 1
      /\ ws_closed[s] => errors_sent[s] = 1
      /\ (pc[s] = "done" /\ client[s] = "connected" /\ ~cancelled[s]) =>
           (errors_sent[s] = 1 /\ ws_closed[s])

\* C8 witness: a session that could not open its source is CLOSED after
\* one error message and the close.
C8_Witness ==
  /\ pc[1] = "done"
  /\ cap[1] = "unopened"
  /\ errors_sent[1] = 1
  /\ ws_closed[1]

\* _encode_frame does not raise on the frame session s has read.
Encodable(s) == _encode_frame(image[s].w, image[s].h) # NoImage

\* What holds: when the provider call fails for a frame that can be
\* encoded, the session stays in STREAMING, every configured class's
\* history receives exactly one 0 and the frame's message goes to
\* send_json, which delivers it to a client that is connected.
C9_ProviderFailureWhenEncodable ==
  [][\A s \in Sessions :
       /\ (pc[s] = "call" /\ response'[s] \in FailedResponses) =>
            /\ Encodable(s) => pc'[s] = "send"
            /\ frame'[s] = frame[s]
            /\ DOMAIN history'[s] = 0..(Len(class_names[s]) - 1)
            /\ \A c \in DOMAIN history'[s] :
                 history'[s][c] = Pushed(history[s][c], 0)
       /\ (/\ pc[s] = "send"
           /\ pc'[s] # "send"
           /\ response[s] \in FailedResponses
           /\ client[s] = "connected"
           /\ ~cancelled'[s]) =>
            /\ sent'[s] = sent[s] + 1
            /\ State(s)' = "STREAMING"]_vars

\* C9 as stated: when the provider call fails for a frame, the session
\* stays in STREAMING, every configured class's history receives exactly
\* one 0 and the frame's message goes to send_json, which delivers it to a
\* client that is connected.
C9_ProviderFailureNotFatal ==
  [][\A s \in Sessions :
       /\ (pc[s] = "call" /\ response'[s] \in FailedResponses) =>
            /\ pc'[s] = "send"
            /\ frame'[s] = frame[s]
            /\ DOMAIN history'[s] = 0..(Len(class_names[s]) - 1)
            /\ \A c \in DOMAIN history'[s] :
                 history'[s][c] = Pushed(history[s][c], 0)
       /\ (/\ pc[s] = "send"
           /\ pc'[s] # "send"
           /\ response[s] \in FailedResponses
           /\ client[s] = "connected"
           /\ ~cancelled'[s]) =>
            /\ sent'[s] = sent[s] + 1
            /\ State(s)' = "STREAMING"]_vars

\* The message of a second frame, whose provider call failed, is sent after
\* a first frame that showed class 0.
C9_Witness ==
  /\ MessageSent(1)
  /\ response[1] \in FailedResponses
  /\ sent[1] = 2
  /\ Len(class_names[1]) = 2
  /\ history[1][0] = <<1, 0>>
  /\ history[1][1] = <<0, 0>>

\* A provider answer that is a failure or a malformed body: detections is
\* no list, or an entry lacks class or confidence, or has a negative class.
Unusable(resp) ==
  \/ resp \in FailedResponses
  \/ /\ resp.kind = "ok"
     /\ "detections" \in DOMAIN resp.body
     /\ LET v == resp.body.detections
        IN \/ v.type # "list"
           \/ \E i \in 1..Len(v.items) :
                \/ "class" \notin DOMAIN v.items[i]
                \/ "confidence" \notin DOMAIN v.items[i]
                \/ v.items[i].class < 0

\* C10: whatever the provider answers, a failure or a malformed body
\* included, the frame (one that can be encoded) is processed as if the
\* detections were empty and the session remains in STREAMING.
C10_NoResponseFatal ==
  [][\A s \in Sessions :
       (pc[s] = "call" /\ response'[s] # NoResponse
          /\ Unusable(response'[s]) /\ Encodable(s)) =>
         /\ pc'[s] = "send"
         /\ stable'[s] = <<>>
         /\ \A c \in DOMAIN history'[s] :
              history'[s][c] = Pushed(history[s][c], 0)]_vars

\* A step in which _draw raised on the list to draw or _encode_frame
\* raised on the frame (the filter and the sort having passed).
RenderFailed(s) ==
  /\ FrameStep(s)
  /\ ~SortRaises(stable'[s])
  /\ DrawRaises(stable'[s]) \/ encoded'[s] = NoImage

\* C11 as stated: when rendering or encoding fails on a frame, no message
\* is sent for it, the session stays in STREAMING and goes on to the next
\* read, and the frame source is not released.
C11_RenderFailureSkipsFrame ==
  [][\A s \in Sessions :
       RenderFailed(s) =>
         /\ sent'[s] = sent[s]
         /\ pc'[s] = "read"
         /\ cap'[s] = "opened"
         /\ releases'[s] = releases[s]]_vars

\* What a session has done so far, apart from where it stands.
Progress(s) ==
  << frame[s], calls[s], history[s], sent[s], errors_sent[s], releases[s],
     cap[s] >>

\* C12: a failed read seeks the source to position 0 and goes to the
\* backoff sleep, after which the session reads again; in that iteration
\* there is no provider call, no history entry and no message, the source
\* stays open and the session stays in STREAMING.
C12_ReadFailureRetries ==
  [][\A s \in Sessions :
       /\ (pc[s] = "read" /\ pc'[s] # "call") =>
            /\ pc'[s] \in {"read", "backoff"}
            /\ pc'[s] = "backoff" => pos'[s] = 0
            /\ Progress(s)' = Progress(s)
       /\ (pc[s] = "backoff" /\ ~cancelled'[s]) =>
            /\ pc'[s] \in {"backoff", "read"}
            /\ pos'[s] = 0
            /\ cap'[s] = "opened"
            /\ State(s)' = "STREAMING"
            /\ Progress(s)' = Progress(s)]_vars

\* C12 witness: after a frame was sent a read failed, and the retry read
\* the source's first frame again.
C12_Witness ==
  /\ pc[1] = "call"
  /\ frame[1] = 2
  /\ pos[1] = 1
  /\ sent[1] = 1
  /\ cap[1] = "opened"

\* C13 as stated: once the client of a streaming session is gone, the
\* session eventually is CLOSED with its frame source released, also when
\* every read keeps failing.
C13_DisconnectEndsSession ==
  \A s \in Sessions :
    (client[s] = "gone" /\ cap[s] = "opened")
      ~> (State(s) = "CLOSED" /\ cap[s] = "released")

\* The session has read its configuration and has not ended.
Configured(s) == pc[s] \notin {"idle", "accept", "done"}

\* C14: a session takes its class list, its histories' keys and its video
\* source from the configuration that is saved when it starts; no later
\* step, a POST /setup included, changes them for that session, and a
\* session that starts after a POST /setup takes the new values.
C14_ConfigReadOnceAtStart ==
  [][\A s \in Sessions :
       /\ pc[s] \notin {"idle", "accept"} =>
            /\ class_names'[s] = class_names[s]
            /\ DOMAIN history'[s] = DOMAIN history[s]
            /\ source'[s] = source[s]
       /\ (pc[s] = "accept" /\ Configured(s)') =>
            LET cfg == _get_runtime_config(setup)
            IN /\ class_names'[s] = cfg.class_names
               /\ DOMAIN history'[s] = 0..(Len(cfg.class_names) - 1)
               /\ source'[s] = _parse_video_source(cfg.video_source)]_vars

\* C14 witness: session 1 started on the env defaults and awaits the
\* provider for its first frame; a setup with one class and device 1 was
\* saved since, and session 2 streams with it.
C14_Witness ==
  /\ pc[1] = "call"
  /\ class_names[1] = EnvClassNames
  /\ source[1] = [index |-> 0]
  /\ setup = [class_names |-> <<"Hen">>, video_source |-> "1"]
  /\ pc[2] = "sleep"
  /\ class_names[2] = <<"Hen">>
  /\ DOMAIN history[2] = {0}
  /\ source[2] = [index |-> 1]

\* Everything the model holds of session s.
Local(s) ==
  << pc[s], client[s], cancelled[s], class_names[s], history[s], source[s],
     cap[s], releases[s], frame[s], pos[s], calls[s], response[s],
     detections[s], stable[s], sent[s], errors_sent[s], ws_closed[s] >>

\* C15: a step of one session changes nothing of another session, and the
\* histories and the stabilized list a session has after a frame are
\* determined by its own histories before the frame and its own provider
\* response, whatever the other session did in between.
C15_SessionsIndependent ==
  [][\A s \in Sessions :
       /\ (\E t \in Sessions \ {s} : Local(t)' # Local(t)) =>
            Local(s)' = Local(s)
       /\ FrameStep(s) =>
            LET n == Len(class_names[s])
                raw == detections'[s].items
                present(c) == \E i \in 1..Len(raw) : raw[i].class = c
                flag(c) == IF present(c) THEN 1 ELSE 0
                flagged == [c \in 0..(n - 1) |-> Pushed(history[s][c], flag(c))]
                survivors == SelectSeq(raw, LAMBDA d :
                                /\ d.class \in 0..(n - 1)
                                /\ AtLeast80(flagged[d.class]))
            IN /\ history'[s] = flagged
               /\ MessageBuilt(s)' =>
                    /\ Len(stable'[s]) =
                         (IF Len(survivors) < n THEN Len(survivors) ELSE n)
                    /\ \A i \in 1..Len(stable'[s]) :
                         \E j \in 1..Len(survivors) :
                           stable'[s][i] = survivors[j]]_vars

\* C15 witness: two sessions with the same class list have each sent one
\* message, with different histories and different stabilized lists.
C15_Witness ==
  /\ MessageSent(1) /\ MessageSent(2)
  /\ class_names[1] = class_names[2]
  /\ Len(class_names[1]) = 2
  /\ history[1] # history[2]
  /\ stable[1] # <<>>
  /\ stable[2] = <<>>

\* Where the coroutine can stand after a step that started at a given
\* place of an iteration: the place itself (another process stepped), the
\* next place of the iteration, or the end of the session.
NextPlaces(at) ==
  CASE at = "read" -> {"read", "call", "backoff"}
    [] at = "backoff" -> {"backoff", "read", "done"}
    [] at = "call" -> {"call", "send", "done"}
    [] at = "send" -> {"send", "sleep", "done"}
    [] at = "sleep" -> {"sleep", "read", "done"}
    [] OTHER -> {"idle", "accept", "send_error", "ws_close", "read", "done"}

\* C16: an iteration runs read, provider call, history update and filter,
\* render and encode, send, in that order; a frame is read only when the
\* message of every frame read before has been sent, so at most one frame
\* is pending; the k-th message is the k-th frame's; and a frame is sent
\* once, after exactly one provider call.
C16_StepOrderOneMessagePerFrame ==
  [][\A s \in Sessions :
       /\ pc'[s] \in NextPlaces(pc[s])
       /\ frame'[s] # frame[s] =>
            /\ pc[s] = "read" /\ pc'[s] = "call"
            /\ sent[s] = frame[s]
            /\ frame'[s] = frame[s] + 1
            /\ calls'[s] = frame'[s]
       /\ calls'[s] # calls[s] => frame'[s] # frame[s]
       /\ sent'[s] # sent[s] =>
            /\ pc[s] = "send" /\ pc'[s] = "sleep"
            /\ sent'[s] = frame[s]
            /\ sent'[s] = sent[s] + 1
            /\ stable'[s] = stable[s]
       /\ frame'[s] - sent'[s] \in {0, 1}
       /\ pc'[s] \in {"read", "backoff", "sleep"} => sent'[s] = frame'[s]
       /\ pc'[s] \in {"call", "send"} => sent'[s] = frame'[s] - 1]_vars

\* C16 witness: the second frame's message is built and awaits its send,
\* the first frame's message having been sent.
C16_Witness ==
  /\ pc[1] = "send"
  /\ frame[1] = 2
  /\ calls[1] = 2
  /\ sent[1] = 1

\* The histories of session s all hold the entries of k frames.
AllHold(s, k) ==
  \A c \in DOMAIN history[s] :
    Len(history[s][c]) = (IF k < 10 THEN k ELSE 10)

\* C17: in every reachable state the histories of a session have one
\* length: every class got its entry for each frame whose update ran, and
\* no class got one for the frame whose provider call was cancelled or
\* whose response made the update raise.
C17_HistoryUpdateAtomic ==
  \A s \in Sessions :
    /\ pc[s] \in {"read", "backoff", "send", "sleep"} => AllHold(s, frame[s])
    /\ pc[s] = "call" => AllHold(s, frame[s] - 1)
    /\ pc[s] = "done" /\ frame[s] > 0 =>
         AllHold(s, frame[s]) \/ AllHold(s, frame[s] - 1)

\* C17 witness: the task was cancelled while the second frame's provider
\* call was awaited; both classes hold the first frame's entry only.
C17_Witness ==
  /\ pc[1] = "done"
  /\ cancelled[1]
  /\ frame[1] = 2
  /\ sent[1] = 1
  /\ DOMAIN history[1] = {0, 1}
  /\ AllHold(1, 1)

\* C18: the histories of a session have exactly the keys 0 .. (number of
\* class names - 1) in every reachable state; the update of a frame pushes
\* the frame's presence flag at the end of each, dropping the oldest entry
\* when 10 are held, and nothing else changes a history: after k frames
\* each holds the flags of the last min(k, 10) frames in order.
C18_HistoryKeysAndWindow ==
  [][\A s \in Sessions :
       /\ DOMAIN history'[s] = 0..(Len(class_names'[s]) - 1)
       /\ \A c \in DOMAIN history'[s] :
            LET q == history'[s][c]
                k == IF pc'[s] = "call" THEN frame'[s] - 1 ELSE frame'[s]
            IN /\ Len(q) = (IF k < 10 THEN k ELSE 10)
               /\ \A i \in 1..Len(q) : q[i] \in {0, 1}
               /\ IF FrameStep(s)
                  THEN LET old == history[s][c]
                           flag == IF c \in ClassesOf(detections'[s].items)
                                   THEN 1 ELSE 0
                       IN /\ q[Len(q)] = flag
                          /\ \A i \in 1..(Len(q) - 1) :
                               q[i] = old[i + Len(old) + 1 - Len(q)]
                  ELSE pc[s] # "accept" => q = history[s][c]]_vars

\* C18 witness: the 11th frame was processed and sent: the history holds
\* the 10 flags of frames 2 to 11, all of them 0.
C18_Witness ==
  /\ MessageSent(1)
  /\ frame[1] = 11
  /\ Len(history[1][0]) = 10
  /\ Ones(history[1][0]) = 0

\* How often d occurs in l.
Count(l, d) == Cardinality({ i \in 1..Len(l) : l[i] = d })

\* C19: the stabilized list of a message holds only detections of the same
\* frame's raw list, each at most as often as the raw list does: a class
\* absent from the frame is not in the output whatever its history, and
\* when the provider call failed the raw list and the output are empty.
C19_OutputFromCurrentFrame ==
  \A s \in Sessions :
    MessageBuilt(s) =>
      LET raw == detections[s].items
      IN /\ \A i \in 1..Len(stable[s]) :
              Count(stable[s], stable[s][i]) <= Count(raw, stable[s][i])
         /\ \A c \in DOMAIN history[s] :
              c \notin ClassesOf(raw) => c \notin ClassesOf(stable[s])
         /\ response[s] \in FailedResponses =>
              raw = <<>> /\ stable[s] = <<>>

\* C19 witness: a message is sent for a frame whose provider call timed
\* out while class 0 is still present in 8 of its 10 recorded frames.
C19_Witness ==
  /\ MessageSent(1)
  /\ response[1] \in FailedResponses
  /\ Len(history[1][0]) = 10
  /\ Ones(history[1][0]) = 8
  /\ stable[1] = <<>>

\* C20 as stated: the running flag is never true with no training thread
\* alive, whatever the body of POST /train/start held.
C20_RunningHasLiveThread == train_running => Alive # {}

\* What does hold: once a thread was started for the run, the flag returns
\* to false, whether the subprocess fails to launch, fails or succeeds.
C20_StartedRunClears == (train_running /\ Alive # {}) ~> ~train_running

\* The answer of a request that found the running flag set.
AlreadyRunning == [error |-> "Training is already running"]

\* C21: at most one training thread is in run() at any time (a thread is
\* in run() until its finally clause has cleared the flag, the last
\* statement of run()).  While the running flag is true no thread is
\* started, the logs only grow, the error and the output change only in a
\* step of the running thread, and a request is answered with the
\* "already running" error and changes none of them.
C21_AtMostOneTrainingThread ==
  [][/\ Cardinality(Alive) <= 1
     /\ Cardinality(Alive') <= 1
     /\ train_running =>
          /\ \A t \in DOMAIN train_threads :
               train_threads[t] = Unborn => train_threads'[t] = Unborn
          /\ Len(train_logs') >= Len(train_logs)
          /\ SubSeq(train_logs', 1, Len(train_logs)) = train_logs
          /\ train_threads' = train_threads =>
               /\ train_error' = train_error
               /\ train_output' = train_output
               /\ train_running'
          /\ train_reply' # train_reply =>
               /\ train_reply' = AlreadyRunning
               /\ train_threads' = train_threads
               /\ train_logs' = train_logs]_vars

\* C21 witness: the first thread reads its subprocess's output and has
\* logged a line; a request was answered "already running" since that
\* thread was started, and no second thread exists.
C21_Witness ==
  /\ train_running
  /\ train_threads[1].at = "piping"
  /\ train_threads[2] = Unborn
  /\ Alive = {1}
  /\ train_logs # <<>>
  /\ train_reply = AlreadyRunning

====
